---- MODULE Spec2Model ----
(***************************************************************************)
(* Model of the Cortex ruler (pkg/ruler/ruler.go): ring ownership of rule  *)
(* groups, the sendAlerts notify function, the per-tenant notifier cache,  *)
(* the Ruler's construction and stop sequence, and of the rule store on    *)
(* GCS.                                                                    *)
(*                                                                         *)
(* The specifications of the module:                                       *)
(*   SpecOwns  - replicas calling Ruler.ownsRule against one ring view     *)
(*   SpecLookup - Ruler.ownsRule on every value ring.Get can hand it        *)
(*   SpecSend  - one invocation of the function returned by sendAlerts     *)
(*   Spec      - newGroup/getOrCreateNotifier callers, workers and Stop    *)
(*   SpecFair  - Spec for a sharded Ruler, with fair goroutine scheduling  *)
(*   SpecNew   - NewRuler, step by step                                    *)
(*   SpecDo    - the Do function of the tenants' notifiers                 *)
(*   SpecStore - GetRuleGroup, SetRuleGroup and DeleteRuleGroup on GCS     *)
(*   SpecComp  - the compactor's runs, as its tests set them up            *)
(***************************************************************************)
EXTENDS Integers, Sequences, FiniteSets, TLC

VARIABLES
    \* ---- ownership (SpecOwns) ----
    ringMembers,      \* ring view: member addresses in token order
    ringHealthy,      \* ring view: enough healthy members to answer a read
    lastCall,         \* per replica: the last ownsRule call made on this ring view
    recalled,         \* per replica: that call repeated the hash of the one before
    failedLookups,    \* per replica: number of its ring lookups that failed
    ringCheckErrors   \* per replica process: the ringCheckErrors counter

VARIABLES
    \* ---- sendAlerts (SpecSend) ----
    notifyExpr,       \* expr argument of the notify function
    notifyAlerts,     \* alerts argument of the notify function
    notifyDone,       \* the notify function has returned
    sendCalls         \* the argument lists of the n.Send calls made so far

VARIABLES
    \* ---- the Ruler (Spec) ----
    enableSharding,   \* cfg.EnableSharding
    lifecycler,       \* r.lifecycler: "none", "running" or "shutdown"
    ring,             \* r.ring: "none", "running" or "stopped"
    notOwned,         \* the scheduler skipped a due group as not owned
    notifiers,        \* r.notifiers: tenant -> cached notifier (0: no entry)
    notifiersMtx,     \* r.notifiersMtx: "free" or the goroutine holding it
    nrun,             \* per tenant, the rulerNotifiers made so far, each
                      \* "running" (go n.run() started) or "stopped"
    inserted,         \* per tenant, the notifiers ever stored in r.notifiers
    failures,         \* number of applyConfig errors so far
    userMetrics,      \* r.userMetrics: tenant -> metrics set (0: no entry)
    userMetricsMtx,   \* r.userMetricsMtx: "free" or the goroutine holding it
    metricsMade,      \* per tenant, the number of NewGroupMetrics calls
    cpc,              \* per newGroup caller: where it is
    cuser,            \* per caller: g.User() of the group being built
    cn,               \* per caller: the notifier of getOrCreateNotifier
    cret,             \* per caller: what getOrCreateNotifier returned
    cearly,           \* per caller: no notifier existed when the call began
    workChan,         \* the work channel: wrapped groups waiting for a worker
    chanClosed,       \* the work channel is closed
    schedStop,        \* the scheduler has been told to stop
    dispatched,       \* number of groups the scheduler has found due so far
    enqueued,         \* number of wrapped groups handed to the work channel
    received,         \* per wrapped group: how many times a worker received it
    evalFailed,       \* number of group evaluations counted as failed
    wpc,              \* per worker: "recv", "eval" or "exited"
    wgroup,           \* per worker: the wrapped group it evaluates
    sentAfterStop,    \* a notify function ran on a notifier already stopped
    spc,              \* Ruler.Stop: where it is
    stopRange         \* Ruler.Stop: the tenants its range loop iterates over

VARIABLES
    \* ---- NewRuler (SpecNew) ----
    cfgNumWorkers,    \* cfg.NumWorkers
    cfgSharding,      \* cfg.EnableSharding
    notifierCfgOk,    \* buildNotifierConfig will succeed
    storageOk,        \* NewRuleStorage will succeed
    lifecyclerOk,     \* ring.NewLifecycler will succeed
    ringOk,           \* ring.New will succeed
    nrpc,             \* NewRuler: where it is
    nrStore,          \* ruler.store: "unset", "store" or "nil"
    nrLifecycler,     \* a lifecycler was created
    nrRing,           \* a ring was created
    nrWorkers,        \* number of worker goroutines started
    nrScheduler,      \* the scheduler goroutine was started
    nrRuler,          \* the *Ruler NewRuler returned: "none", "nil", "ruler"
    nrErr             \* the error NewRuler returned: "none", "nil" or its text

VARIABLES
    \* ---- a notifier's Do function (SpecDo) ----
    doLog             \* the calls of the Do functions made so far

VARIABLES
    \* ---- the rule store on GCS (SpecStore) ----
    bucket,           \* the bucket: object name -> contents (NoObject: none)
    storeOps,         \* number of SetRuleGroup and DeleteRuleGroup calls so far
    lastSet,          \* per (tenant, namespace, name): the last successful
                      \* call for it, "set" with its rules or "deleted"
    lastGet           \* what the last GetRuleGroup call returned

VARIABLES
    \* ---- the compactor's runs (SpecComp) ----
    cfgCompactionRetries, \* compactorCfg.CompactionRetries
    runPc,            \* the run loop: "idle", "ongoing", "discover", "users"
                      \* or "stopped"
    attempts,         \* failed attempts of the run in progress
    discovered,       \* users discovered and not compacted yet
    discoverCalls,    \* Iter("") calls of the current (or last) run
    userCompactions,  \* user compactions started in the current (or last) run
    runsStarted,      \* cortex_compactor_runs_started_total
    runsCompleted,    \* cortex_compactor_runs_completed_total
    runsFailed,       \* cortex_compactor_runs_failed_total
    lastRun,          \* how the last run ended: "none", "completed", "failed"
    discoveryAlwaysFailed, \* every discovery of the current (or last) run failed
    userFailed        \* a user compaction of the current (or last) run failed

VARIABLES
    \* ---- ownsRule on any lookup result (SpecLookup) ----
    lookups,          \* number of ownsRule calls so far
    lookupLast        \* the last call: the replica, what ring.Get returned
                      \* to it, and what ownsRule did

ownsVars == <<ringMembers, ringHealthy, lastCall, recalled, failedLookups,
             ringCheckErrors>>

sendVars == <<notifyExpr, notifyAlerts, notifyDone, sendCalls>>

notifierVars == <<notifiers, notifiersMtx, nrun, inserted, failures>>

metricsVars == <<userMetrics, userMetricsMtx, metricsMade>>

callerVars == <<cpc, cuser, cn, cret, cearly, enqueued>>

workerVars == <<wpc, wgroup, sentAfterStop, received, evalFailed>>

ringVars == <<enableSharding, lifecycler, ring, notOwned>>

rulerVars == <<ringVars, notifierVars, metricsVars, callerVars, workerVars,
               workChan, chanClosed, schedStop, dispatched, spc, stopRange>>

newCfgVars == <<cfgNumWorkers, cfgSharding, notifierCfgOk, storageOk,
                lifecyclerOk, ringOk>>

newVars == <<newCfgVars, nrpc, nrStore, nrLifecycler, nrRing, nrWorkers,
             nrScheduler, nrRuler, nrErr>>

doVars == <<doLog>>

storeVars == <<bucket, storeOps, lastSet, lastGet>>

compVars == <<cfgCompactionRetries, runPc, attempts, discovered,
              discoverCalls, userCompactions, runsStarted, runsCompleted,
              runsFailed, lastRun, discoveryAlwaysFailed, userFailed>>

lookupVars == <<lookups, lookupLast>>

auxVars == <<newVars, doVars, storeVars, compVars, lookupVars>>

vars == <<ownsVars, sendVars, rulerVars, auxVars>>

otherThanOwns == <<sendVars, rulerVars, auxVars>>

otherThanSend == <<ownsVars, rulerVars, auxVars>>

otherThanRuler == <<ownsVars, sendVars, auxVars>>

otherThanNew ==
    <<ownsVars, sendVars, rulerVars, doVars, storeVars, compVars,
      lookupVars>>

otherThanDo ==
    <<ownsVars, sendVars, rulerVars, newVars, storeVars, compVars,
      lookupVars>>

otherThanStore ==
    <<ownsVars, sendVars, rulerVars, newVars, doVars, compVars,
      lookupVars>>

otherThanLookup ==
    <<ownsVars, sendVars, rulerVars, newVars, doVars, storeVars, compVars>>

otherThanComp ==
    <<ownsVars, sendVars, rulerVars, newVars, doVars, storeVars,
      lookupVars>>

-----------------------------------------------------------------------------
(* Ownership: Ruler.ownsRule                                               *)

\* Addresses that can be registered in the ring.
Addrs == {"a1", "a2", "a3"}

\* The rulers that read this ring view, each named by its lifecycler.Addr
\* (all distinct).  a3 is an address that can be registered in the ring
\* without its ruler reading this view.
Replicas == {"a1", "a2"}

\* Largest group identity hash of the model (uint32 in the code).
MaxHash == 2

Hashes == 0..MaxHash

\* Cap on the ringCheckErrors counter.
MaxErrors == 2

\* Replication factor of the ring.
ReplicationFactor == 2

NoCall == [hash |-> -1, ret |-> "none"]

Min(a, b) == IF a < b THEN a ELSE b

\* Orderings of subsets of Addrs: the possible token orders of the members.
RECURSIVE Orderings(_)
Orderings(S) ==
    IF S = {} THEN {<<>>}
    ELSE UNION {{<<a>> \o s : s \in Orderings(S \ {a})} : a \in S}

RingViews == UNION {Orderings(S) : S \in SUBSET Addrs}

\* ring.Get(hash, ring.Read): an error when the ring cannot answer the read,
\* otherwise the replicas responsible for the token, in ring order starting
\* at the token's position.
RingGet(members, healthy, hash) ==
    IF Len(members) = 0 \/ ~healthy
    THEN [err |-> TRUE, Ingesters |-> <<>>]
    ELSE LET n     == Len(members)
             start == hash % n
             k     == Min(ReplicationFactor, n)
         IN  [err |-> FALSE,
              Ingesters |-> [i \in 1..k |-> members[((start + i - 1) % n) + 1]]]

\* Mutant: on a lookup error the group is treated as not owned.
ownsRule_ErrNotOwned(addr, rlrs) ==
    IF rlrs.err THEN "false"
    ELSE IF Len(rlrs.Ingesters) = 0 THEN "panic"
    ELSE IF rlrs.Ingesters[1] = addr THEN "true" ELSE "false"

\* Mutant: any entry of the replica set owns the group, not only the first.
ownsRule_AnyReplica(addr, rlrs) ==
    IF rlrs.err THEN "true"
    ELSE IF Len(rlrs.Ingesters) = 0 THEN "panic"
    ELSE IF \E i \in 1..Len(rlrs.Ingesters) : rlrs.Ingesters[i] = addr
         THEN "true" ELSE "false"

\* Mutant: after a first lookup error the replica stops claiming ownership
\* on errors.
ownsRule_ErrOnce(addr, rlrs) ==
    IF rlrs.err
    THEN (IF ringCheckErrors[addr] = 0 THEN "true" ELSE "false")
    ELSE IF Len(rlrs.Ingesters) = 0 THEN "panic"
    ELSE IF rlrs.Ingesters[1] = addr THEN "true" ELSE "false"

\* The value ownsRule returns for lifecycler address addr when ring.Get
\* returned rlrs; "panic" is the index-out-of-range of Ingesters[0].
ownsRule(addr, rlrs) ==
    IF rlrs.err THEN "true"
    ELSE IF Len(rlrs.Ingesters) = 0 THEN "panic"
    ELSE IF rlrs.Ingesters[1] = addr THEN "true" ELSE "false"

\* Mutant: the counter is incremented by every call.
ownsRuleCountsError_Always(rlrs) == TRUE

\* Whether ownsRule increments ringCheckErrors.
ownsRuleCountsError(rlrs) == rlrs.err

OwnsInit ==
    /\ ringMembers \in RingViews
    /\ ringHealthy \in BOOLEAN
    /\ lastCall = [r \in Replicas |-> NoCall]
    /\ recalled = [r \in Replicas |-> FALSE]
    /\ failedLookups = [r \in Replicas |-> 0]
    /\ ringCheckErrors = [r \in Replicas |-> 0]

\* The ring view changes (join, leave, heartbeat timeout); calls recorded on
\* the previous view are forgotten.
RingChange ==
    /\ \E m \in RingViews, h \in BOOLEAN :
          /\ <<m, h>> # <<ringMembers, ringHealthy>>
          /\ ringMembers' = m
          /\ ringHealthy' = h
    /\ lastCall' = [r \in Replicas |-> NoCall]
    /\ recalled' = [r \in Replicas |-> FALSE]
    /\ UNCHANGED <<failedLookups, ringCheckErrors>>
    /\ UNCHANGED otherThanOwns

\* Replica r calls ownsRule(hash).
OwnsRule(r, hash) ==
    LET rlrs == RingGet(ringMembers, ringHealthy, hash)
    IN  /\ ownsRuleCountsError(rlrs) => ringCheckErrors[r] < MaxErrors
        /\ lastCall' = [lastCall EXCEPT ![r] =
                            [hash |-> hash, ret |-> ownsRule(r, rlrs)]]
        /\ recalled' = [recalled EXCEPT ![r] = lastCall[r].hash = hash]
        /\ failedLookups' =
              IF rlrs.err
              THEN [failedLookups EXCEPT ![r] = @ + 1]
              ELSE failedLookups
        /\ ringCheckErrors' =
              IF ownsRuleCountsError(rlrs)
              THEN [ringCheckErrors EXCEPT ![r] = @ + 1]
              ELSE ringCheckErrors
        /\ UNCHANGED <<ringMembers, ringHealthy>>
        /\ UNCHANGED otherThanOwns

OwnsNext ==
    \/ RingChange
    \/ \E r \in Replicas, hash \in Hashes : OwnsRule(r, hash)

\* The lookup result replica r saw in its recorded call.
Seen(r) == RingGet(ringMembers, ringHealthy, lastCall[r].hash)

Called(r) == lastCall[r] # NoCall

\* C1: whenever the ring lookup made by ownsRule returns an error, ownsRule
\* returns true, for every hash and every ring state.
C1_OwnershipFallback ==
    \A r \in Replicas : (Called(r) /\ Seen(r).err) => lastCall[r].ret = "true"

C1_Witness ==
    \E r \in Replicas : Called(r) /\ Seen(r).err /\ lastCall[r].ret = "true"

\* The replicas whose recorded call was for hash h.
CallersOf(h) == {r \in Replicas : Called(r) /\ lastCall[r].hash = h}

OwnersOf(h) == {r \in CallersOf(h) : lastCall[r].ret = "true"}

Primary(h) == RingGet(ringMembers, ringHealthy, h).Ingesters[1]

Success(h) == ~RingGet(ringMembers, ringHealthy, h).err

\* C2 (as stated): on a successful lookup ownsRule returns true iff the
\* replica's address is the first entry's, and among the replicas that saw
\* that lookup result exactly one owns the group.
C2_ExactlyOneOwner ==
    \A h \in Hashes :
        (Success(h) /\ CallersOf(h) = Replicas) =>
            /\ \A r \in Replicas : lastCall[r].ret = "true" <=> r = Primary(h)
            /\ Cardinality(OwnersOf(h)) = 1

\* C2 (amended): on a successful lookup ownsRule returns true iff the
\* replica's address is the first entry's; among the replicas that saw that
\* lookup result at most one owns the group, and exactly one does when the
\* first entry's address is the address of one of them.
C2_PrimaryOnly ==
    \A h \in Hashes :
        Success(h) =>
            /\ \A r \in CallersOf(h) :
                  lastCall[r].ret = "true" <=> r = Primary(h)
            /\ Cardinality(OwnersOf(h)) <= 1
            /\ Primary(h) \in CallersOf(h) => Cardinality(OwnersOf(h)) = 1

C2_Witness ==
    \E h \in Hashes :
        /\ Success(h)
        /\ CallersOf(h) = Replicas
        /\ Len(RingGet(ringMembers, ringHealthy, h).Ingesters) = 2
        /\ RingGet(ringMembers, ringHealthy, h).Ingesters[2] \in Replicas
        /\ Cardinality(OwnersOf(h)) = 1

\* C23: the ring-error counter of a replica equals the number of its ring
\* lookups that failed: a step in which a lookup of the replica fails
\* increments the counter by exactly one, and any other step (a call whose
\* lookup succeeds, a call of another replica, a ring change) leaves it.
C23_ErrorCounterExact ==
    /\ [](\A r \in Replicas : ringCheckErrors[r] = failedLookups[r])
    /\ [][\A r \in Replicas :
             ringCheckErrors'[r] =
                IF failedLookups'[r] # failedLookups[r]
                THEN ringCheckErrors[r] + 1
                ELSE ringCheckErrors[r]]_vars

\* A replica's lookups failed twice, and its last call then succeeded.
C23_Witness ==
    \E r \in Replicas :
        /\ failedLookups[r] = 2
        /\ ringCheckErrors[r] = 2
        /\ Called(r)
        /\ ~Seen(r).err

MaxLookups == 4

\* The values of (ring.ReplicationSet, error) ring.Get can hand to
\* ownsRule: an error, or no error and a replica set of any length, the
\* empty one included.
ReplicationSets == UNION {[1..n -> Addrs] : n \in 0..ReplicationFactor}

LookupOutcomes ==
    {[err |-> TRUE, Ingesters |-> <<>>]}
    \cup {[err |-> FALSE, Ingesters |-> rs] : rs \in ReplicationSets}

NoLookup ==
    [addr |-> "none", rlrs |-> [err |-> TRUE, Ingesters |-> <<>>],
     ret |-> "none"]

LookupInit ==
    /\ lookups = 0
    /\ lookupLast = NoLookup

\* Replica r calls ownsRule and ring.Get hands it rlrs.
OwnsRuleOn(r, rlrs) ==
    /\ lookups < MaxLookups
    /\ lookups' = lookups + 1
    /\ lookupLast' = [addr |-> r, rlrs |-> rlrs, ret |-> ownsRule(r, rlrs)]
    /\ UNCHANGED otherThanLookup

LookupNext == \E r \in Replicas, rlrs \in LookupOutcomes : OwnsRuleOn(r, rlrs)

\* C29: ownsRule is total: whatever the ring lookup returned, a lookup
\* without an error and with an empty replica set included, ownsRule
\* returns true or false and does not fail on the first replica entry.
C29_OwnsRuleTotal == lookupLast.ret \in {"none", "true", "false"}

-----------------------------------------------------------------------------
(* sendAlerts: the rules.NotifyFunc bound to a tenant's notifier           *)

\* Largest timestamp of the model; 0 is the zero time.Time.
MaxTime == 2

\* Largest number of alerts in one batch.
MaxBatch == 2

StatePending == "pending"
StateFiring == "firing"
StateInactive == "inactive"

\* cfg.ExternalURL, as passed to sendAlerts.
ExternalURL == "http://ruler"

Exprs == {"up", "a b"}

\* The alerts a rule hands to its notify function: a pending alert has not
\* fired, a firing alert has fired and is not resolved, an inactive alert
\* was resolved after it fired.
AlertLabels == {"l1", "l2"}

Annotation(l) == IF l = "l1" THEN "n1" ELSE "n2"

Alerts ==
    {[State |-> StatePending, Labels |-> l, Annotations |-> Annotation(l),
      FiredAt |-> 0, ResolvedAt |-> 0] : l \in AlertLabels}
    \cup
    {[State |-> StateFiring, Labels |-> l, Annotations |-> Annotation(l),
      FiredAt |-> f, ResolvedAt |-> 0] : l \in AlertLabels, f \in 1..MaxTime}
    \cup
    {[State |-> StateInactive, Labels |-> l, Annotations |-> Annotation(l),
      FiredAt |-> p[1], ResolvedAt |-> p[2]] :
         l \in AlertLabels,
         p \in {q \in (1..MaxTime) \X (1..MaxTime) : q[1] <= q[2]}}

Batches == UNION {[1..n -> Alerts] : n \in 0..MaxBatch}

\* url.QueryEscape on the expressions of the model.
QueryEscape(expr) == IF expr = "a b" THEN "a+b" ELSE expr

\* strutil.TableLinkForExpression
TableLinkForExpression(expr) ==
    "/graph?g0.expr=" \o QueryEscape(expr) \o "&g0.tab=1"

\* Mutant: an unresolved alert ends when it fired.
NotifierAlert_EndsWhenFired(alert, expr, externalURL) ==
    [StartsAt     |-> alert.FiredAt,
     Labels       |-> alert.Labels,
     Annotations  |-> alert.Annotations,
     GeneratorURL |-> externalURL \o TableLinkForExpression(expr),
     EndsAt       |-> IF alert.ResolvedAt # 0 THEN alert.ResolvedAt
                      ELSE alert.FiredAt]

\* The notifier.Alert built for one alert; EndsAt 0 is the unset time.
NotifierAlert(alert, expr, externalURL) ==
    [StartsAt     |-> alert.FiredAt,
     Labels       |-> alert.Labels,
     Annotations  |-> alert.Annotations,
     GeneratorURL |-> externalURL \o TableLinkForExpression(expr),
     EndsAt       |-> IF alert.ResolvedAt # 0 THEN alert.ResolvedAt ELSE 0]

\* Mutant: the loop forwards pending alerts too.
SkipAlert_Never(alert) == FALSE

\* The `continue` of the loop: only actually firing alerts are sent.
SkipAlert(alert) == alert.State = StatePending

\* The loop over alerts, building res.
RECURSIVE sendAlertsLoop(_, _, _, _)
sendAlertsLoop(alerts, i, expr, res) ==
    IF i > Len(alerts) THEN res
    ELSE IF SkipAlert(alerts[i])
         THEN sendAlertsLoop(alerts, i + 1, expr, res)
         ELSE sendAlertsLoop(alerts, i + 1, expr,
                             Append(res, NotifierAlert(alerts[i], expr, ExternalURL)))

sendAlertsRes(alerts, expr) == sendAlertsLoop(alerts, 1, expr, <<>>)

\* The guard of n.Send(res...).
sendAlertsCallsSend(alerts, expr) == Len(alerts) > 0

SendInit ==
    /\ notifyExpr \in Exprs
    /\ notifyAlerts \in Batches
    /\ notifyDone = FALSE
    /\ sendCalls = <<>>

\* One invocation of the function returned by sendAlerts.
NotifyFunc ==
    /\ ~notifyDone
    /\ notifyDone' = TRUE
    /\ sendCalls' =
          IF sendAlertsCallsSend(notifyAlerts, notifyExpr)
          THEN Append(sendCalls, sendAlertsRes(notifyAlerts, notifyExpr))
          ELSE sendCalls
    /\ UNCHANGED <<notifyExpr, notifyAlerts>>
    /\ UNCHANGED otherThanSend

SendNext == NotifyFunc

\* The records handed to the notifier, over all Send calls.
RECURSIVE Flatten(_)
Flatten(ss) == IF ss = <<>> THEN <<>> ELSE Head(ss) \o Flatten(Tail(ss))

Handed == Flatten(sendCalls)

IsNotPending(a) == a.State # StatePending

NonPending(alerts) == SelectSeq(alerts, IsNotPending)

C7_SendIffFilteredNonEmpty ==
    notifyDone => (Len(sendCalls) > 0 <=> NonPending(notifyAlerts) # <<>>)

\* The generator URL of the records built for an expression of the model.
ExpectedURL(expr) ==
    IF expr = "a b"
    THEN "http://ruler/graph?g0.expr=a+b&g0.tab=1"
    ELSE "http://ruler/graph?g0.expr=up&g0.tab=1"

\* C24: each forwarded record starts at its alert's fired time, carries the
\* alert's labels and annotations and the external URL followed by the
\* table link of the expression, and has an end time if and only if the
\* alert's resolved time is non-zero, which is then that time; the record
\* of a firing, unresolved alert has EndsAt unset.
C24_RecordConstruction ==
    notifyDone =>
        LET np == NonPending(notifyAlerts)
        IN  /\ Len(Handed) = Len(np)
            /\ \A i \in 1..Len(np) :
                  /\ Handed[i].StartsAt = np[i].FiredAt
                  /\ Handed[i].Labels = np[i].Labels
                  /\ Handed[i].Annotations = np[i].Annotations
                  /\ Handed[i].GeneratorURL = ExpectedURL(notifyExpr)
                  /\ Handed[i].EndsAt # 0 <=> np[i].ResolvedAt # 0
                  /\ Handed[i].EndsAt # 0 =>
                        Handed[i].EndsAt = np[i].ResolvedAt
                  /\ (np[i].State = StateFiring /\ np[i].ResolvedAt = 0) =>
                        Handed[i].EndsAt = 0

\* A firing alert and a resolved one were forwarded, for an expression
\* that needs escaping.
C24_Witness ==
    /\ notifyDone
    /\ notifyExpr = "a b"
    /\ Len(notifyAlerts) = 2
    /\ notifyAlerts[1].State = StateFiring
    /\ notifyAlerts[2].State = StateInactive
    /\ Len(Handed) = 2
    /\ Handed[1].EndsAt = 0
    /\ Handed[2].EndsAt = notifyAlerts[2].ResolvedAt
    /\ Handed[2].EndsAt # 0

-----------------------------------------------------------------------------
(* The Ruler: newGroup, getOrCreateNotifier, workers and Stop              *)

Tenants == {"t1", "t2"}

\* The goroutines of the scheduler that call the injected factory r.newGroup.
Callers == {"s1", "s2"}

\* cfg.NumWorkers of the model.
NumWorkers == 2

Workers == 1..NumWorkers

\* Capacity of the work channel.
WorkChanCap == 1

\* Cap on the number of groups the scheduler finds due in one behaviour.
MaxGroups == 2

\* Cap on the number of applyConfig errors in one behaviour.
MaxFailures == 1

NoGroup == [id |-> 0, user |-> "none", notifier |-> 0, metrics |-> 0]

\* Mutant: Lock() excludes nobody.
MtxAcquirable_NoExclusion(mtx) == TRUE

\* sync.Mutex.Lock returns only when the mutex is free.
MtxAcquirable(mtx) == mtx = "free"

\* The notifiers of r.notifiers: the values Stop ranges over.
Cached == {t \in Tenants : notifiers[t] # 0}

RulerInit ==
    /\ enableSharding \in BOOLEAN
    /\ lifecycler = IF enableSharding THEN "running" ELSE "none"
    /\ ring = IF enableSharding THEN "running" ELSE "none"
    /\ notOwned = FALSE
    /\ notifiers = [t \in Tenants |-> 0]
    /\ notifiersMtx = "free"
    /\ nrun = [t \in Tenants |-> <<>>]
    /\ inserted = [t \in Tenants |-> {}]
    /\ failures = 0
    /\ userMetrics = [t \in Tenants |-> 0]
    /\ userMetricsMtx = "free"
    /\ metricsMade = [t \in Tenants |-> 0]
    /\ cpc = [c \in Callers |-> "idle"]
    /\ cuser = [c \in Callers |-> "none"]
    /\ cn = [c \in Callers |-> 0]
    /\ cret = [c \in Callers |-> "none"]
    /\ cearly = [c \in Callers |-> FALSE]
    /\ workChan = <<>>
    /\ chanClosed = FALSE
    /\ schedStop = FALSE
    /\ dispatched = 0
    /\ enqueued = 0
    /\ received = [id \in 1..MaxGroups |-> 0]
    /\ evalFailed = 0
    /\ wpc = [w \in Workers |-> "recv"]
    /\ wgroup = [w \in Workers |-> NoGroup]
    /\ sentAfterStop = FALSE
    /\ spc = "notcalled"
    /\ stopRange = {}

\* ---- the scheduler's side: calling the factory and enqueueing ----------

\* r.lifecycler.Addr of the Ruler of this specification.
Self == "a1"

\* What ring.Get can return to the Ruler.
LookupResults ==
    {RingGet(m, h, k) : m \in RingViews, h \in BOOLEAN, k \in Hashes}

\* The ownership predicate the scheduler asks: constantly true when sharding
\* is disabled, ownsRule's answer otherwise.
Owns(rlrs) == IF enableSharding THEN ownsRule(Self, rlrs) ELSE "true"

\* A scheduler goroutine finds a group due that this replica does not own
\* (the ring lookup returned a result for which the predicate is false),
\* and skips it. (An owned group is NewGroupCall.)
GroupNotOwned(c) ==
    /\ cpc[c] = "idle"
    /\ ~schedStop
    /\ dispatched < MaxGroups
    /\ \E rlrs \in LookupResults : Owns(rlrs) = "false"
    /\ dispatched' = dispatched + 1
    /\ notOwned' = TRUE
    /\ UNCHANGED <<enableSharding, lifecycler, ring, notifierVars, metricsVars,
                   callerVars, workerVars, workChan, chanClosed, schedStop,
                   spc, stopRange>>
    /\ UNCHANGED otherThanRuler

\* A scheduler goroutine finds group of tenant t due and calls r.newGroup,
\* which calls r.getOrCreateNotifier(user).
NewGroupCall(c, t) ==
    /\ cpc[c] = "idle"
    /\ ~schedStop
    /\ dispatched < MaxGroups
    /\ dispatched' = dispatched + 1
    /\ cpc' = [cpc EXCEPT ![c] = "gonLock"]
    /\ cuser' = [cuser EXCEPT ![c] = t]
    /\ cearly' = [cearly EXCEPT ![c] = notifiers[t] = 0]
    /\ UNCHANGED <<enqueued, cn, cret, ringVars, notifierVars, metricsVars, workerVars,
                   workChan, chanClosed, schedStop, spc, stopRange>>
    /\ UNCHANGED otherThanRuler

\* getOrCreateNotifier: r.notifiersMtx.Lock()
GetOrCreateLock(c) ==
    /\ cpc[c] = "gonLock"
    /\ MtxAcquirable(notifiersMtx)
    /\ notifiersMtx' = c
    /\ cpc' = [cpc EXCEPT ![c] = "gonLookup"]
    /\ UNCHANGED <<enqueued, cuser, cn, cret, cearly, notifiers, nrun, inserted, failures,
                   ringVars, metricsVars, workerVars,
                   workChan, chanClosed, schedStop, dispatched, spc, stopRange>>
    /\ UNCHANGED otherThanRuler

\* Mutant: the lookup is skipped, every call creates a notifier.
GetOrCreateLookup_NoCache(c) ==
    /\ cpc[c] = "gonLookup"
    /\ cpc' = [cpc EXCEPT ![c] = "gonCreate"]
    /\ UNCHANGED <<enqueued, cuser, cn, cret, cearly, notifiers, notifiersMtx,
                   nrun, inserted, failures, ringVars, metricsVars, workerVars,
                   workChan, chanClosed, schedStop, dispatched, spc, stopRange>>
    /\ UNCHANGED otherThanRuler

\* getOrCreateNotifier: n, ok := r.notifiers[userID]; if ok, return it
\* (the deferred Unlock runs).
GetOrCreateLookup(c) ==
    /\ cpc[c] = "gonLookup"
    /\ IF notifiers[cuser[c]] # 0
       THEN /\ cn' = [cn EXCEPT ![c] = notifiers[cuser[c]]]
            /\ cret' = [cret EXCEPT ![c] = "ok"]
            /\ notifiersMtx' = "free"
            /\ cpc' = [cpc EXCEPT ![c] = "gonRet"]
       ELSE /\ cpc' = [cpc EXCEPT ![c] = "gonCreate"]
            /\ UNCHANGED <<cn, cret, notifiersMtx>>
    /\ UNCHANGED <<enqueued, cuser, cearly, notifiers, nrun, inserted, failures,
                   ringVars, metricsVars, workerVars,
                   workChan, chanClosed, schedStop, dispatched, spc, stopRange>>
    /\ UNCHANGED otherThanRuler

\* getOrCreateNotifier: n = newRulerNotifier(...); go n.run()
GetOrCreateNew(c) ==
    /\ cpc[c] = "gonCreate"
    /\ nrun' = [nrun EXCEPT ![cuser[c]] = Append(@, "running")]
    /\ cn' = [cn EXCEPT ![c] = Len(nrun[cuser[c]]) + 1]
    /\ cpc' = [cpc EXCEPT ![c] = "gonApply"]
    /\ UNCHANGED <<enqueued, cuser, cret, cearly, notifiers, notifiersMtx, inserted,
                   failures, ringVars, metricsVars, workerVars,
                   workChan, chanClosed, schedStop, dispatched, spc, stopRange>>
    /\ UNCHANGED otherThanRuler

\* Mutant: the notifier is cached whether or not applyConfig succeeded.
CachesNotifier_Always(applied) == TRUE

\* Whether the new notifier is stored in r.notifiers, given that applyConfig
\* succeeded (applied) or returned an error.
CachesNotifier(applied) == applied

\* getOrCreateNotifier: n.applyConfig(r.notifierCfg); on an error return it,
\* otherwise r.notifiers[userID] = n and return n.notifier (the deferred
\* Unlock runs).
GetOrCreateApply(c, applied) ==
    /\ cpc[c] = "gonApply"
    /\ ~applied => failures < MaxFailures
    /\ failures' = IF applied THEN failures ELSE failures + 1
    /\ IF CachesNotifier(applied)
       THEN /\ notifiers' = [notifiers EXCEPT ![cuser[c]] = cn[c]]
            /\ inserted' = [inserted EXCEPT ![cuser[c]] = @ \cup {cn[c]}]
       ELSE UNCHANGED <<notifiers, inserted>>
    /\ IF applied
       THEN /\ cret' = [cret EXCEPT ![c] = "ok"]
            /\ UNCHANGED cn
       ELSE /\ cret' = [cret EXCEPT ![c] = "err"]
            /\ cn' = [cn EXCEPT ![c] = 0]
    /\ notifiersMtx' = "free"
    /\ cpc' = [cpc EXCEPT ![c] = "gonRet"]
    /\ UNCHANGED <<enqueued, cuser, cearly, nrun, ringVars, metricsVars, workerVars,
                   workChan, chanClosed, schedStop, dispatched, spc, stopRange>>
    /\ UNCHANGED otherThanRuler

\* Mutant: the scheduler goroutine gives up on a factory error.
NewGroupCheckNotifier_Abort(c) ==
    /\ cpc[c] = "gonRet"
    /\ cpc' = [cpc EXCEPT ![c] = IF cret[c] = "err" THEN "returned" ELSE "rules"]
    /\ cret' = [cret EXCEPT ![c] = "none"]
    /\ cearly' = [cearly EXCEPT ![c] = FALSE]
    /\ cuser' = [cuser EXCEPT ![c] = IF cret[c] = "err" THEN "none" ELSE @]
    /\ UNCHANGED <<enqueued, cn, ringVars, notifierVars, metricsVars,
                   workerVars, workChan, chanClosed, schedStop, dispatched, spc, stopRange>>
    /\ UNCHANGED otherThanRuler

\* newGroup: if err != nil { return nil, err } after getOrCreateNotifier;
\* the scheduler logs the error and skips the group.
NewGroupCheckNotifier(c) ==
    /\ cpc[c] = "gonRet"
    /\ cpc' = [cpc EXCEPT ![c] = IF cret[c] = "err" THEN "idle" ELSE "rules"]
    /\ cret' = [cret EXCEPT ![c] = "none"]
    /\ cearly' = [cearly EXCEPT ![c] = FALSE]
    /\ cuser' = [cuser EXCEPT ![c] = IF cret[c] = "err" THEN "none" ELSE @]
    /\ UNCHANGED <<enqueued, cn, ringVars, notifierVars, metricsVars,
                   workerVars, workChan, chanClosed, schedStop, dispatched, spc, stopRange>>
    /\ UNCHANGED otherThanRuler

\* newGroup: rls, err := g.Rules(ctx); on an error return it.
NewGroupRules(c, decoded) ==
    /\ cpc[c] = "rules"
    /\ cpc' = [cpc EXCEPT ![c] = IF decoded THEN "metLock" ELSE "idle"]
    /\ cuser' = [cuser EXCEPT ![c] = IF decoded THEN @ ELSE "none"]
    /\ cn' = [cn EXCEPT ![c] = IF decoded THEN @ ELSE 0]
    /\ UNCHANGED <<enqueued, cret, cearly, ringVars, notifierVars, metricsVars,
                   workerVars, workChan, chanClosed, schedStop, dispatched, spc, stopRange>>
    /\ UNCHANGED otherThanRuler

\* newGroup: r.userMetricsMtx.Lock()
NewGroupMetricsLock(c) ==
    /\ cpc[c] = "metLock"
    /\ MtxAcquirable(userMetricsMtx)
    /\ userMetricsMtx' = c
    /\ cpc' = [cpc EXCEPT ![c] = "metGet"]
    /\ UNCHANGED <<enqueued, cuser, cn, cret, cearly, userMetrics, metricsMade, ringVars,
                   notifierVars, workerVars, workChan, chanClosed, schedStop, dispatched, spc, stopRange>>
    /\ UNCHANGED otherThanRuler

\* Mutant: the metrics are created and stored without looking the tenant up.
NewGroupMetrics_AlwaysNew(c) ==
    /\ cpc[c] = "metGet"
    /\ metricsMade' = [metricsMade EXCEPT ![cuser[c]] = @ + 1]
    /\ userMetrics' = [userMetrics EXCEPT ![cuser[c]] = metricsMade[cuser[c]] + 1]
    /\ userMetricsMtx' = "free"
    /\ cpc' = [cpc EXCEPT ![c] = "enqueue"]
    /\ UNCHANGED <<enqueued, cuser, cn, cret, cearly, ringVars, notifierVars, workerVars,
                   workChan, chanClosed, schedStop, dispatched, spc, stopRange>>
    /\ UNCHANGED otherThanRuler

\* newGroup: look the tenant's metrics up, create and store them if absent,
\* Unlock, build the options (NotifyFunc: sendAlerts(notifier, ...)) and
\* return the wrapped group.
NewGroupMetrics(c) ==
    /\ cpc[c] = "metGet"
    /\ IF userMetrics[cuser[c]] = 0
       THEN /\ metricsMade' = [metricsMade EXCEPT ![cuser[c]] = @ + 1]
            /\ userMetrics' = [userMetrics EXCEPT ![cuser[c]] = metricsMade[cuser[c]] + 1]
       ELSE UNCHANGED <<userMetrics, metricsMade>>
    /\ userMetricsMtx' = "free"
    /\ cpc' = [cpc EXCEPT ![c] = "enqueue"]
    /\ UNCHANGED <<enqueued, cuser, cn, cret, cearly, ringVars, notifierVars, workerVars,
                   workChan, chanClosed, schedStop, dispatched, spc, stopRange>>
    /\ UNCHANGED otherThanRuler

\* The wrapped group newGroup returned to caller c.
WrappedGroup(c) ==
    [id |-> enqueued + 1, user |-> cuser[c], notifier |-> cn[c],
     metrics |-> userMetrics[cuser[c]]]

\* The scheduler hands the wrapped group to the work channel; it blocks
\* while the channel is full.
Enqueue(c) ==
    /\ cpc[c] = "enqueue"
    /\ Len(workChan) < WorkChanCap
    /\ workChan' = Append(workChan, WrappedGroup(c))
    /\ enqueued' = enqueued + 1
    /\ cpc' = [cpc EXCEPT ![c] = "idle"]
    /\ cuser' = [cuser EXCEPT ![c] = "none"]
    /\ cn' = [cn EXCEPT ![c] = 0]
    /\ UNCHANGED <<cret, cearly, ringVars, notifierVars, metricsVars,
                   workerVars, chanClosed, schedStop, dispatched, spc, stopRange>>
    /\ UNCHANGED otherThanRuler

\* The scheduler's goroutine returns once it is told to stop and has
\* finished its dispatch in flight.
SchedulerReturn(c) ==
    /\ cpc[c] = "idle"
    /\ schedStop
    /\ cpc' = [cpc EXCEPT ![c] = "returned"]
    /\ UNCHANGED <<enqueued, cuser, cn, cret, cearly, ringVars, notifierVars, metricsVars,
                   workerVars, workChan, chanClosed, schedStop, dispatched, spc, stopRange>>
    /\ UNCHANGED otherThanRuler

\* ---- the workers ------------------------------------------------------

\* Mutant: a receive leaves the wrapped group in the channel.
WorkerReceive_NoDequeue(w) ==
    /\ wpc[w] = "recv"
    /\ workChan # <<>>
    /\ wgroup' = [wgroup EXCEPT ![w] = Head(workChan)]
    /\ received' = [received EXCEPT ![Head(workChan).id] = @ + 1]
    /\ wpc' = [wpc EXCEPT ![w] = "eval"]
    /\ UNCHANGED <<sentAfterStop, evalFailed, ringVars, notifierVars,
                   metricsVars, callerVars, workChan, chanClosed, schedStop,
                   dispatched, spc, stopRange>>
    /\ UNCHANGED otherThanRuler

\* A worker receives the next wrapped group from the work channel.
WorkerReceive(w) ==
    /\ wpc[w] = "recv"
    /\ workChan # <<>>
    /\ wgroup' = [wgroup EXCEPT ![w] = Head(workChan)]
    /\ received' = [received EXCEPT ![Head(workChan).id] = @ + 1]
    /\ workChan' = Tail(workChan)
    /\ wpc' = [wpc EXCEPT ![w] = "eval"]
    /\ UNCHANGED <<sentAfterStop, evalFailed, ringVars, notifierVars,
                   metricsVars, callerVars, chanClosed, schedStop, dispatched,
                   spc, stopRange>>
    /\ UNCHANGED otherThanRuler

\* A worker evaluates its group; when alerting rules produce alerts it calls
\* the group's NotifyFunc, the closure of sendAlerts over the notifier.
WorkerEvaluate(w, alerting) ==
    /\ wpc[w] = "eval"
    /\ sentAfterStop' =
          (sentAfterStop \/
             (alerting /\ nrun[wgroup[w].user][wgroup[w].notifier] = "stopped"))
    /\ wgroup' = [wgroup EXCEPT ![w] = NoGroup]
    /\ wpc' = [wpc EXCEPT ![w] = "recv"]
    /\ UNCHANGED <<received, evalFailed, ringVars, notifierVars, metricsVars, callerVars,
                   workChan, chanClosed, schedStop, dispatched, spc, stopRange>>
    /\ UNCHANGED otherThanRuler

\* Mutant: a panic in an evaluation ends the worker's goroutine.
WorkerPanic_Dies(w) ==
    /\ wpc[w] = "eval"
    /\ wgroup' = [wgroup EXCEPT ![w] = NoGroup]
    /\ wpc' = [wpc EXCEPT ![w] = "exited"]
    /\ UNCHANGED <<sentAfterStop, received, evalFailed, ringVars, notifierVars,
                   metricsVars, callerVars, workChan, chanClosed, schedStop,
                   dispatched, spc, stopRange>>
    /\ UNCHANGED otherThanRuler

\* The evaluation of a worker's group panics: the worker recovers, counts a
\* failed group evaluation and goes back to receiving.
WorkerPanic(w) ==
    /\ wpc[w] = "eval"
    /\ evalFailed' = evalFailed + 1
    /\ wgroup' = [wgroup EXCEPT ![w] = NoGroup]
    /\ wpc' = [wpc EXCEPT ![w] = "recv"]
    /\ UNCHANGED <<sentAfterStop, received, ringVars, notifierVars,
                   metricsVars, callerVars, workChan, chanClosed, schedStop,
                   dispatched, spc, stopRange>>
    /\ UNCHANGED otherThanRuler

\* A worker's loop ends when the work channel is closed and drained; the
\* goroutine then calls ruler.workerWG.Done().
WorkerExit(w) ==
    /\ wpc[w] = "recv"
    /\ workChan = <<>>
    /\ chanClosed
    /\ wpc' = [wpc EXCEPT ![w] = "exited"]
    /\ UNCHANGED <<wgroup, sentAfterStop, received, evalFailed, ringVars, notifierVars,
                   metricsVars, callerVars, workChan, chanClosed, schedStop,
                   dispatched, spc, stopRange>>
    /\ UNCHANGED otherThanRuler

\* ---- Ruler.Stop --------------------------------------------------------

StopCall ==
    /\ spc = "notcalled"
    /\ spc' = "lockNotifiers"
    /\ UNCHANGED <<ringVars, notifierVars, metricsVars, callerVars, workerVars,
                   workChan, chanClosed, schedStop, dispatched, stopRange>>
    /\ UNCHANGED otherThanRuler

\* Stop: r.notifiersMtx.Lock()
StopLock ==
    /\ spc = "lockNotifiers"
    /\ MtxAcquirable(notifiersMtx)
    /\ notifiersMtx' = "stop"
    /\ stopRange' = Cached
    /\ spc' = "stopNotifiers"
    /\ UNCHANGED <<notifiers, nrun, inserted, failures, ringVars, metricsVars,
                   callerVars, workerVars, workChan, chanClosed, schedStop,
                   dispatched>>
    /\ UNCHANGED otherThanRuler

\* Stop: one iteration of `for _, n := range r.notifiers { n.stop() }`.
StopNotifier(t) ==
    /\ spc = "stopNotifiers"
    /\ t \in stopRange
    /\ nrun[t][notifiers[t]] = "running"
    /\ nrun' = [nrun EXCEPT ![t][notifiers[t]] = "stopped"]
    /\ UNCHANGED <<notifiers, notifiersMtx, inserted, failures, ringVars,
                   metricsVars, callerVars, workerVars,
                   workChan, chanClosed, schedStop, dispatched, spc, stopRange>>
    /\ UNCHANGED otherThanRuler

\* Stop: the range loop is over; r.notifiersMtx.Unlock()
StopUnlock ==
    /\ spc = "stopNotifiers"
    /\ \A t \in stopRange : nrun[t][notifiers[t]] = "stopped"
    /\ notifiersMtx' = "free"
    /\ spc' = "stopScheduler"
    /\ UNCHANGED <<notifiers, nrun, inserted, failures, ringVars, metricsVars,
                   callerVars, workerVars, workChan, chanClosed, schedStop, dispatched, stopRange>>
    /\ UNCHANGED otherThanRuler

\* Mutant: Stop goes on to wait without telling the scheduler to stop.
StopScheduler_NoStop ==
    /\ spc = "stopScheduler"
    /\ spc' = "waitScheduler"
    /\ UNCHANGED <<ringVars, notifierVars, metricsVars, callerVars, workerVars,
                   workChan, chanClosed, schedStop, dispatched, stopRange>>
    /\ UNCHANGED otherThanRuler

\* Stop: r.scheduler.Stop() - the scheduler is told to stop ...
StopScheduler ==
    /\ spc = "stopScheduler"
    /\ schedStop' = TRUE
    /\ spc' = "waitScheduler"
    /\ UNCHANGED <<ringVars, notifierVars, metricsVars, callerVars, workerVars,
                   workChan, chanClosed, dispatched, stopRange>>
    /\ UNCHANGED otherThanRuler

\* ... and r.scheduler.Stop() returns once the scheduler's loop has
\* returned; the work channel is closed then.
StopSchedulerDone ==
    /\ spc = "waitScheduler"
    /\ \A c \in Callers : cpc[c] = "returned"
    /\ chanClosed' = TRUE
    /\ spc' = "waitWorkers"
    /\ UNCHANGED <<ringVars, notifierVars, metricsVars, callerVars, workerVars,
                   workChan, schedStop, dispatched, stopRange>>
    /\ UNCHANGED otherThanRuler

\* Mutant: Stop does not wait for the workers.
WorkerWGDone_NoWait == TRUE

\* r.workerWG.Wait() returns: every worker goroutine called Done().
WorkerWGDone == \A w \in Workers : wpc[w] = "exited"

\* Mutant: Stop goes on to leave the ring whether or not sharding is enabled.
StopWaitWorkers_AlwaysLeave ==
    /\ spc = "waitWorkers"
    /\ WorkerWGDone
    /\ spc' = "lifecyclerShutdown"
    /\ UNCHANGED <<ringVars, notifierVars, metricsVars, callerVars, workerVars,
                   workChan, chanClosed, schedStop, dispatched, stopRange>>
    /\ UNCHANGED otherThanRuler

\* Stop: r.workerWG.Wait(), then `if r.cfg.EnableSharding`.
StopWaitWorkers ==
    /\ spc = "waitWorkers"
    /\ WorkerWGDone
    /\ spc' = IF enableSharding THEN "lifecyclerShutdown" ELSE "returned"
    /\ UNCHANGED <<ringVars, notifierVars, metricsVars, callerVars, workerVars,
                   workChan, chanClosed, schedStop, dispatched, stopRange>>
    /\ UNCHANGED otherThanRuler

\* Stop: r.lifecycler.Shutdown() - leave the ring.
StopLifecycler ==
    /\ spc = "lifecyclerShutdown"
    /\ lifecycler' = "shutdown"
    /\ spc' = "ringStop"
    /\ UNCHANGED <<enableSharding, ring, notOwned, notifierVars, metricsVars, callerVars,
                   workerVars, workChan, chanClosed, schedStop, dispatched, stopRange>>
    /\ UNCHANGED otherThanRuler

\* Stop: r.ring.Stop(), and Stop returns.
StopRing ==
    /\ spc = "ringStop"
    /\ ring' = "stopped"
    /\ spc' = "returned"
    /\ UNCHANGED <<enableSharding, lifecycler, notOwned, notifierVars, metricsVars,
                   callerVars, workerVars, workChan, chanClosed, schedStop, dispatched, stopRange>>
    /\ UNCHANGED otherThanRuler

RulerNext ==
    \/ \E c \in Callers : GroupNotOwned(c)
    \/ \E c \in Callers, t \in Tenants : NewGroupCall(c, t)
    \/ \E c \in Callers : GetOrCreateLock(c)
    \/ \E c \in Callers : GetOrCreateLookup(c)
    \/ \E c \in Callers : GetOrCreateNew(c)
    \/ \E c \in Callers, applied \in BOOLEAN : GetOrCreateApply(c, applied)
    \/ \E c \in Callers : NewGroupCheckNotifier(c)
    \/ \E c \in Callers, decoded \in BOOLEAN : NewGroupRules(c, decoded)
    \/ \E c \in Callers : NewGroupMetricsLock(c)
    \/ \E c \in Callers : NewGroupMetrics(c)
    \/ \E c \in Callers : Enqueue(c)
    \/ \E c \in Callers : SchedulerReturn(c)
    \/ \E w \in Workers : WorkerReceive(w)
    \/ \E w \in Workers, alerting \in BOOLEAN : WorkerEvaluate(w, alerting)
    \/ \E w \in Workers : WorkerPanic(w)
    \/ \E w \in Workers : WorkerExit(w)
    \/ StopCall
    \/ StopLock
    \/ \E t \in Tenants : StopNotifier(t)
    \/ StopUnlock
    \/ StopScheduler
    \/ StopSchedulerDone
    \/ StopWaitWorkers
    \/ StopLifecycler
    \/ StopRing

\* ---- the goroutines and their scheduling ---------------------------------

\* The steps of scheduler goroutine c once it has a group in hand. Finding a
\* group due (NewGroupCall) is the timer's doing and is not among them.
CallerStep(c) ==
    \/ GetOrCreateLock(c)
    \/ GetOrCreateLookup(c)
    \/ GetOrCreateNew(c)
    \/ \E applied \in BOOLEAN : GetOrCreateApply(c, applied)
    \/ NewGroupCheckNotifier(c)
    \/ \E decoded \in BOOLEAN : NewGroupRules(c, decoded)
    \/ NewGroupMetricsLock(c)
    \/ NewGroupMetrics(c)
    \/ Enqueue(c)
    \/ SchedulerReturn(c)

\* The steps of worker goroutine w.
WorkerStep(w) ==
    \/ WorkerReceive(w)
    \/ \E alerting \in BOOLEAN : WorkerEvaluate(w, alerting)
    \/ WorkerPanic(w)
    \/ WorkerExit(w)

\* The steps of the goroutine that called Stop.
StopStep ==
    \/ StopLock
    \/ \E t \in Tenants : StopNotifier(t)
    \/ StopUnlock
    \/ StopScheduler
    \/ StopSchedulerDone
    \/ StopWaitWorkers
    \/ StopLifecycler
    \/ StopRing

\* A step of some goroutine.
GoroutineStep ==
    \/ \E c \in Callers : CallerStep(c)
    \/ \E w \in Workers : WorkerStep(w)
    \/ StopStep

\* The Go runtime does not leave every runnable goroutine waiting for ever,
\* and an evaluation in flight terminates: while some goroutine can take a
\* step, one does.
Fairness == WF_vars(GoroutineStep)

\* ---- the notifier cache ------------------------------------------------

\* The (tenant, notifier) references successful getOrCreateNotifier calls
\* returned and that are still held: by a caller, by a wrapped group in the
\* work channel, or by a wrapped group a worker evaluates.
HeldRefs ==
    {<<cuser[c], cn[c]>> : c \in {d \in Callers :
        \/ cret[d] = "ok"
        \/ cpc[d] \in {"rules", "metLock", "metGet", "enqueue"}}}
    \cup {<<workChan[i].user, workChan[i].notifier>> : i \in 1..Len(workChan)}
    \cup {<<wgroup[w].user, wgroup[w].notifier>> :
            w \in {v \in Workers : wgroup[v] # NoGroup}}

C4_OneSendLoopPerTenant ==
    \A t \in Tenants : Len(nrun[t]) <= 1

\* C5: when applyConfig returns an error, getOrCreateNotifier returns the
\* error and leaves the tenant->notifier map unchanged; a call whose
\* applyConfig succeeds returns the notifier and caches it.
C5_FailureNotCached ==
    [][\A c \in Callers :
          (cpc[c] = "gonApply" /\ cpc'[c] = "gonRet") =>
             \/ /\ cret'[c] = "err"
                /\ cn'[c] = 0
                /\ notifiers' = notifiers
             \/ /\ cret'[c] = "ok"
                /\ cn'[c] # 0
                /\ notifiers'[cuser[c]] = cn'[c]
                /\ \A t \in Tenants \ {cuser[c]} : notifiers'[t] = notifiers[t]]_vars

\* A tenant whose first notifier failed to configure and whose later call
\* cached the second one.
C5_Witness ==
    \E t \in Tenants, c \in Callers :
        /\ Len(nrun[t]) = 2
        /\ notifiers[t] = 2
        /\ cret[c] = "ok" /\ cuser[c] = t /\ cn[c] = 2

\* ---- Ruler.Stop ---------------------------------------------------------

PastNotifiers ==
    spc \in {"stopScheduler", "waitScheduler", "waitWorkers",
             "lifecyclerShutdown", "ringStop", "returned"}

PastScheduler ==
    spc \in {"waitWorkers", "lifecyclerShutdown", "ringStop", "returned"}

PastWorkers == spc \in {"lifecyclerShutdown", "ringStop", "returned"}

\* C8: Stop performs its steps in order, each starting only after the
\* previous one has finished: (1) every cached notifier is stopped, (2) the
\* scheduler is stopped and its loop has returned, (3) all workers have
\* exited, (4) only if sharding is enabled, the lifecycler leaves the ring
\* and then the ring is stopped.
C8_StopOrder ==
    /\ spc = "stopNotifiers" => stopRange = Cached
    /\ PastNotifiers => \A t \in stopRange : nrun[t][notifiers[t]] = "stopped"
    /\ schedStop => PastNotifiers
    /\ PastScheduler => schedStop /\ \A c \in Callers : cpc[c] = "returned"
    /\ (\E w \in Workers : wpc[w] = "exited") => PastScheduler
    /\ PastWorkers => \A w \in Workers : wpc[w] = "exited"
    /\ lifecycler = "shutdown" => enableSharding /\ PastWorkers
    /\ ring = "stopped" => lifecycler = "shutdown"
    /\ ~enableSharding => lifecycler = "none" /\ ring = "none"
    /\ (spc = "returned" /\ enableSharding) =>
          lifecycler = "shutdown" /\ ring = "stopped"

C8_Witness ==
    /\ spc = "returned"
    /\ enableSharding
    /\ stopRange = Tenants
    /\ ring = "stopped"

\* C9: once Stop has returned, no worker is still running and every
\* notifier in the tenant->notifier map is stopped, including notifiers
\* created by group construction running concurrently with Stop.
C9_GracefulStop ==
    spc = "returned" =>
        /\ \A w \in Workers : wpc[w] = "exited"
        /\ \A t \in Cached : nrun[t][notifiers[t]] = "stopped"

\* C10: in no interleaving of Stop with group evaluations in flight is the
\* alert-sending closure invoked on a notifier after that notifier's stop
\* has begun.
C10_NoSendAfterStop == ~sentAfterStop

\* ---- lifetime of the cached entries ----------------------------------------

\* No worker has received a group: no group was evaluated, and no alert
\* send was requested for any tenant.
NoEvaluationYet == \A id \in 1..MaxGroups : received[id] = 0

\* C25: a tenant has an entry in r.notifiers only if an alert send has been
\* requested for it; alert sends are requested by evaluations only, so a
\* tenant whose groups have only been constructed has no entry: as long as
\* no group was evaluated, r.notifiers is empty.
C25_LazyOnFirstAlert == NoEvaluationYet => \A t \in Tenants : notifiers[t] = 0

\* C26: once a tenant has an entry in r.notifiers no step (of a
\* getOrCreateNotifier call for any tenant, of newGroup, of Stop) removes
\* the entry or stores another notifier in it, and a getOrCreateNotifier
\* call that looks the tenant up from then on returns that notifier.
C26_NoEviction ==
    [][\A t \in Tenants :
          notifiers[t] # 0 =>
             /\ notifiers'[t] = notifiers[t]
             /\ \A c \in Callers :
                   (cpc[c] = "gonLookup" /\ cuser[c] = t /\ cpc'[c] # cpc[c]) =>
                      /\ cpc'[c] = "gonRet"
                      /\ cret'[c] = "ok"
                      /\ cn'[c] = notifiers[t]]_vars

\* A getOrCreateNotifier call found the tenant's entry and returned its
\* notifier, and Stop has stopped that notifier: the entry is still there.
C26_Witness ==
    \E c \in Callers :
        /\ cpc[c] = "gonRet"
        /\ cret[c] = "ok"
        /\ ~cearly[c]
        /\ notifiers[cuser[c]] = cn[c]
        /\ nrun[cuser[c]][cn[c]] = "stopped"

\* The wrapped groups newGroup has returned and that are not evaluated yet.
GroupsBuilt ==
    {workChan[i] : i \in 1..Len(workChan)}
    \cup {wgroup[w] : w \in {v \in Workers : wgroup[v] # NoGroup}}

\* C27: for any interleaving of newGroup calls at most one metrics set is
\* ever created per tenant, every group of the tenant is bound to the set
\* stored in r.userMetrics for it, and an entry of r.userMetrics is never
\* removed or replaced.
C27_MetricsSingleton ==
    /\ [](/\ \A t \in Tenants :
                /\ metricsMade[t] <= 1
                /\ userMetrics[t] # 0 <=> metricsMade[t] = 1
          /\ \A g \in GroupsBuilt :
                g.metrics # 0 /\ g.metrics = userMetrics[g.user])
    /\ [][\A t \in Tenants :
             userMetrics[t] # 0 => userMetrics'[t] = userMetrics[t]]_vars

\* Two groups of one tenant, one in the work channel and one a worker
\* evaluates, are bound to the one metrics set made for the tenant.
C27_Witness ==
    \E w \in Workers :
        /\ wgroup[w] # NoGroup
        /\ workChan # <<>>
        /\ workChan[1].user = wgroup[w].user
        /\ workChan[1].metrics = wgroup[w].metrics
        /\ workChan[1].metrics = userMetrics[wgroup[w].user]
        /\ metricsMade[wgroup[w].user] = 1

\* ---- failures of the factory ---------------------------------------------

\* Caller c has a factory error in hand: getOrCreateNotifier returned one,
\* or the step is the one in which g.Rules returns one.
FactoryFails(c) ==
    \/ cpc[c] = "gonRet" /\ cret[c] = "err" /\ cpc'[c] # "gonRet"
    \/ cpc[c] = "rules" /\ cpc'[c] \notin {"rules", "metLock"}

\* C16: when the factory returns an error for one group (notifier creation
\* or rule decoding failed), the scheduler skips that group only: its
\* goroutine is ready for the next due group, nothing is enqueued for the
\* failed group, and the dispatches of the other goroutines, the groups
\* already in the work channel and the scheduler's run state are untouched.
C16_FailureIsolated ==
    [][\A c \in Callers :
          FactoryFails(c) =>
             /\ cpc'[c] = "idle"
             /\ workChan' = workChan
             /\ enqueued' = enqueued
             /\ schedStop' = schedStop
             /\ \A d \in Callers \ {c} :
                   /\ cpc'[d] = cpc[d]
                   /\ cuser'[d] = cuser[d]
                   /\ cn'[d] = cn[d]]_vars

\* After a notifier of a tenant failed to configure, a later group of the
\* same tenant was constructed and is in the work channel.
C16_Witness ==
    /\ failures >= 1
    /\ \E t \in Tenants, i \in 1..Len(workChan) :
          /\ Len(nrun[t]) = 2
          /\ workChan[i].user = t
          /\ workChan[i].notifier = 2

\* ---- the work channel ----------------------------------------------------

\* The wrapped groups in the work channel.
InChannel == {workChan[i].id : i \in 1..Len(workChan)}

\* The workers evaluating wrapped group id.
EvaluatedBy(id) == {w \in Workers : wpc[w] = "eval" /\ wgroup[w].id = id}

\* C15: a wrapped group handed to the work channel is received by exactly
\* one worker: it is in the channel once and not yet received, or it was
\* received once; no wrapped group is in the hands of two workers at the
\* same time, whatever the number of workers.
C15_OneWorkerPerGroup ==
    /\ Cardinality(InChannel) = Len(workChan)
    /\ \A id \in 1..MaxGroups :
          /\ id \in InChannel <=> (id <= enqueued /\ received[id] = 0)
          /\ id \notin InChannel /\ id <= enqueued => received[id] = 1
          /\ id > enqueued => received[id] = 0
          /\ Cardinality(EvaluatedBy(id)) <= 1
          /\ EvaluatedBy(id) # {} => received[id] = 1
    /\ \A w \in Workers : wpc[w] = "eval" <=> wgroup[w] # NoGroup

\* Two workers evaluate two wrapped groups at the same time.
C15_Witness ==
    \E w1, w2 \in Workers :
        /\ w1 # w2
        /\ wpc[w1] = "eval" /\ wpc[w2] = "eval"
        /\ wgroup[w1].id # wgroup[w2].id

\* ---- panics in evaluations -----------------------------------------------

\* The step is a panic of worker w's evaluation.
Panics(w) ==
    wpc[w] = "eval" /\ wpc'[w] # "eval" /\ evalFailed' # evalFailed

\* C17: a panic raised while a worker evaluates a group does not end the
\* worker's goroutine: it is counted as one failed group evaluation, the
\* set of live workers is unchanged, and the worker goes on receiving from
\* the channel; a worker ends only on the closed and drained channel.
C17_PanicRecovered ==
    /\ [][\A w \in Workers :
             Panics(w) =>
                /\ evalFailed' = evalFailed + 1
                /\ wpc'[w] = "recv"
                /\ \A v \in Workers : wpc'[v] = "exited" <=> wpc[v] = "exited"]_vars
    /\ [][\A w \in Workers :
             (wpc[w] # "exited" /\ wpc'[w] = "exited") =>
                wpc[w] = "recv" /\ chanClosed /\ workChan = <<>>]_vars
    /\ [](evalFailed <= enqueued)

\* A worker whose earlier evaluation panicked is evaluating another group.
C17_Witness ==
    /\ evalFailed = 1
    /\ \E w \in Workers : wpc[w] = "eval" /\ wgroup[w].id = 2
    /\ \A w \in Workers : wpc[w] = "eval" \/ wgroup[w] = NoGroup

\* ---- the two mutexes -----------------------------------------------------

\* Stop is inside its range loop with a send loop still to stop: a
\* n.stop(), which waits for the notifier's goroutines, is pending or in
\* progress.
StoppingSendLoop ==
    /\ spc = "stopNotifiers"
    /\ \E t \in stopRange : nrun[t][notifiers[t]] = "running"

\* The goroutines waiting for a mutex.
WaitsForNotifiersMtx ==
    {c \in Callers : cpc[c] = "gonLock"}
    \cup (IF spc = "lockNotifiers" THEN {"stop"} ELSE {})

WaitsForMetricsMtx == {c \in Callers : cpc[c] = "metLock"}

\* C18: each of the two mutexes is held only for a lookup or insert in its
\* map (for the notifier map: the lookup and the creation on a miss) and
\* never while a blocking operation such as the stop of a notifier's send
\* loop is in progress; no goroutine holds both at once; and a goroutine
\* holding one never waits for the other, so no interleaving of newGroup,
\* getOrCreateNotifier and Stop deadlocks.
C18_LockDiscipline ==
    /\ notifiersMtx = "stop" => ~StoppingSendLoop
    /\ \A c \in Callers :
          /\ notifiersMtx = c => cpc[c] \in {"gonLookup", "gonCreate", "gonApply"}
          /\ userMetricsMtx = c => cpc[c] = "metGet"
          /\ ~(notifiersMtx = c /\ userMetricsMtx = c)
    /\ userMetricsMtx # "stop"
    /\ notifiersMtx \notin WaitsForNotifiersMtx \cup WaitsForMetricsMtx
    /\ userMetricsMtx \notin WaitsForNotifiersMtx \cup WaitsForMetricsMtx

\* ---- sharding disabled ---------------------------------------------------

\* C12: when sharding is disabled, the ring and the lifecycler are never
\* instantiated, the ownership predicate is true for every lookup outcome
\* (no due group is ever skipped as not owned), and Stop performs no ring
\* leave and no ring stop.
C12_ShardingDisabled ==
    ~enableSharding =>
        /\ lifecycler = "none"
        /\ ring = "none"
        /\ \A rlrs \in LookupResults : Owns(rlrs) = "true"
        /\ ~notOwned
        /\ spc \notin {"lifecyclerShutdown", "ringStop"}

\* Without sharding, every due group was dispatched and Stop has returned.
C12_Witness ==
    /\ ~enableSharding
    /\ dispatched = MaxGroups
    /\ \E t \in Tenants : notifiers[t] # 0
    /\ spc = "returned"

\* ---- shutdown ------------------------------------------------------------

\* Stop has returned and every worker has exited.
StopComplete == spc = "returned" /\ \A w \in Workers : wpc[w] = "exited"

\* C11: the work channel is closed only after the scheduler has stopped
\* producing (so the scheduler never sends on a closed channel), a worker
\* exits only once the channel is closed and drained, and, evaluations in
\* flight terminating, a call of Stop eventually returns with every worker
\* exited: no worker blocks forever on the work channel.  (Stop is called
\* at most once and StopComplete is stable, so "Stop was never called or
\* StopComplete holds, again and again" says that a call of Stop leads to
\* StopComplete.)
C11_ShutdownLiveness ==
    /\ [](chanClosed => schedStop /\ \A c \in Callers : cpc[c] = "returned")
    /\ [](\A w \in Workers :
             wpc[w] = "exited" => chanClosed /\ workChan = <<>>)
    /\ []<>(spc = "notcalled" \/ StopComplete)

\* Stop waits for the scheduler while a scheduler goroutine is blocked on
\* the full work channel.
C11_Witness ==
    /\ spc = "waitScheduler"
    /\ \E c \in Callers : cpc[c] = "enqueue"
    /\ Len(workChan) = WorkChanCap

-----------------------------------------------------------------------------
(* NewRuler                                                                *)

\* Largest cfg.NumWorkers of the model.
MaxCfgWorkers == 2

\* Mutant: only a negative worker count is refused.
NumWorkersInvalid_Negative(n) == n < 0

\* if cfg.NumWorkers <= 0
NumWorkersInvalid(n) == n <= 0

NewInit ==
    /\ cfgNumWorkers \in -1..MaxCfgWorkers
    /\ cfgSharding \in BOOLEAN
    /\ notifierCfgOk \in BOOLEAN
    /\ storageOk \in BOOLEAN
    /\ lifecyclerOk \in BOOLEAN
    /\ ringOk \in BOOLEAN
    /\ nrpc = "numWorkers"
    /\ nrStore = "unset"
    /\ nrLifecycler = FALSE
    /\ nrRing = FALSE
    /\ nrWorkers = 0
    /\ nrScheduler = FALSE
    /\ nrRuler = "none"
    /\ nrErr = "none"

\* NewRuler returns nil and the error err.
NewRulerFails(err) ==
    /\ nrpc' = "returned"
    /\ nrRuler' = "nil"
    /\ nrErr' = err

\* if cfg.NumWorkers <= 0 { return nil, fmt.Errorf(...) }
NewRulerNumWorkers ==
    /\ nrpc = "numWorkers"
    /\ IF NumWorkersInvalid(cfgNumWorkers)
       THEN NewRulerFails("must have at least 1 worker")
       ELSE nrpc' = "notifierCfg" /\ UNCHANGED <<nrRuler, nrErr>>
    /\ UNCHANGED <<newCfgVars, nrStore, nrLifecycler, nrRing, nrWorkers,
                   nrScheduler>>
    /\ UNCHANGED otherThanNew

\* ncfg, err := buildNotifierConfig(&cfg); if err != nil { return nil, err }
NewRulerNotifierConfig ==
    /\ nrpc = "notifierCfg"
    /\ IF notifierCfgOk
       THEN nrpc' = "storage" /\ UNCHANGED <<nrRuler, nrErr>>
       ELSE NewRulerFails("notifier config")
    /\ UNCHANGED <<newCfgVars, nrStore, nrLifecycler, nrRing, nrWorkers,
                   nrScheduler>>
    /\ UNCHANGED otherThanNew

\* rulePoller, ruleStore, err := NewRuleStorage(cfg.StoreConfig): err is not
\* tested; the Ruler struct is built with the store returned, and the
\* scheduler is constructed with the poller returned.
NewRulerStorage ==
    /\ nrpc = "storage"
    /\ nrStore' = IF storageOk THEN "store" ELSE "nil"
    /\ nrpc' = IF cfgSharding THEN "lifecycler" ELSE "workers"
    /\ UNCHANGED <<newCfgVars, nrLifecycler, nrRing, nrWorkers, nrScheduler,
                   nrRuler, nrErr>>
    /\ UNCHANGED otherThanNew

\* ruler.lifecycler, err = ring.NewLifecycler(...); on an error return it.
NewRulerLifecycler ==
    /\ nrpc = "lifecycler"
    /\ IF lifecyclerOk
       THEN /\ nrLifecycler' = TRUE
            /\ nrpc' = "ring"
            /\ UNCHANGED <<nrRuler, nrErr>>
       ELSE /\ NewRulerFails("lifecycler")
            /\ UNCHANGED nrLifecycler
    /\ UNCHANGED <<newCfgVars, nrStore, nrRing, nrWorkers, nrScheduler>>
    /\ UNCHANGED otherThanNew

\* ruler.ring, err = ring.New(...); on an error return it.
NewRulerRing ==
    /\ nrpc = "ring"
    /\ IF ringOk
       THEN /\ nrRing' = TRUE
            /\ nrpc' = "workers"
            /\ UNCHANGED <<nrRuler, nrErr>>
       ELSE /\ NewRulerFails("ring")
            /\ UNCHANGED nrRing
    /\ UNCHANGED <<newCfgVars, nrStore, nrLifecycler, nrWorkers, nrScheduler>>
    /\ UNCHANGED otherThanNew

\* One iteration of the loop that starts the workers:
\* ruler.workerWG.Add(1); go func() { w := newWorker(ruler); w.Run(); ... }()
NewRulerStartWorker ==
    /\ nrpc = "workers"
    /\ nrWorkers < cfgNumWorkers
    /\ nrWorkers' = nrWorkers + 1
    /\ UNCHANGED <<newCfgVars, nrpc, nrStore, nrLifecycler, nrRing,
                   nrScheduler, nrRuler, nrErr>>
    /\ UNCHANGED otherThanNew

\* The loop is over: go ruler.scheduler.Run(); return ruler, nil
NewRulerStartScheduler ==
    /\ nrpc = "workers"
    /\ ~(nrWorkers < cfgNumWorkers)
    /\ nrScheduler' = TRUE
    /\ nrRuler' = "ruler"
    /\ nrErr' = "nil"
    /\ nrpc' = "returned"
    /\ UNCHANGED <<newCfgVars, nrStore, nrLifecycler, nrRing, nrWorkers>>
    /\ UNCHANGED otherThanNew

NewNext ==
    \/ NewRulerNumWorkers
    \/ NewRulerNotifierConfig
    \/ NewRulerStorage
    \/ NewRulerLifecycler
    \/ NewRulerRing
    \/ NewRulerStartWorker
    \/ NewRulerStartScheduler

\* The construction errors the claim calls fatal.
FatalConfig ==
    \/ cfgNumWorkers <= 0
    \/ ~notifierCfgOk
    \/ cfgSharding /\ (~lifecyclerOk \/ ~ringOk)

\* C13: given a worker count <= 0, a malformed notifier configuration or,
\* with sharding enabled, a lifecycler or ring that cannot be created,
\* NewRuler returns an error and a nil Ruler, and at no point has it
\* started a worker goroutine or the scheduler goroutine.
C13_FatalConstruction ==
    FatalConfig =>
        /\ nrWorkers = 0
        /\ ~nrScheduler
        /\ nrRuler # "ruler"
        /\ nrpc = "returned" =>
              /\ nrRuler = "nil"
              /\ nrErr \notin {"none", "nil"}

\* Sharding is enabled, the lifecycler was created and ring.New failed.
C13_Witness ==
    /\ nrpc = "returned"
    /\ cfgNumWorkers > 0
    /\ cfgSharding
    /\ nrLifecycler
    /\ nrErr = "ring"

\* C28: NewRuler returns a Ruler only if every construction step
\* succeeded, the creation of the rule storage included: when NewRuleStorage
\* returns an error NewRuler starts no worker and no scheduler and returns
\* nil and that error, with sharding enabled or not.
C28_StorageErrorFatal ==
    /\ nrRuler = "ruler" =>
          /\ ~NumWorkersInvalid(cfgNumWorkers)
          /\ notifierCfgOk
          /\ storageOk
          /\ cfgSharding => lifecyclerOk /\ ringOk
    /\ (~storageOk /\ nrStore # "unset") =>
          /\ nrWorkers = 0
          /\ ~nrScheduler
          /\ nrpc = "returned" => nrRuler = "nil" /\ nrErr = "storage"

-----------------------------------------------------------------------------
(* The Do function getOrCreateNotifier gives a tenant's notifier           *)

\* Cap on the number of requests in one behaviour.
MaxRequests == 2

\* The org ID a context or a request header carries: none, or a tenant's.
NoOrgID == ""

OrgIDs == Tenants \cup {NoOrgID}

\* user.InjectOrgID(ctx, orgID): the context returned carries orgID,
\* whatever ctx carried.
InjectOrgID(ctxOrg, orgID) == orgID

\* user.InjectOrgIDIntoHTTPRequest(ctx, req): an error when ctx carries no
\* org ID or the request's header already names another one; otherwise the
\* header is set to the org ID of ctx.
InjectOrgIDIntoHTTPRequest(ctxOrg, header) ==
    IF ctxOrg = NoOrgID
    THEN [err |-> "no org id", header |-> header]
    ELSE IF header # NoOrgID /\ header # ctxOrg
    THEN [err |-> "different org id present", header |-> header]
    ELSE [err |-> "nil", header |-> ctxOrg]

\* Mutant: the closure keeps the org ID of the incoming context when it has
\* one.
NotifierDo_KeepsIncoming(userID, ctxOrg, header) ==
    LET ctx == IF ctxOrg # NoOrgID THEN ctxOrg ELSE InjectOrgID(ctxOrg, userID)
        inj == InjectOrgIDIntoHTTPRequest(ctx, header)
    IN  IF inj.err # "nil"
        THEN [sent |-> FALSE, err |-> inj.err, ctx |-> ctx, header |-> header]
        ELSE [sent |-> TRUE, err |-> "nil", ctx |-> ctx, header |-> inj.header]

\* The Do closure of the notifier created by getOrCreateNotifier(userID),
\* called with a context carrying ctxOrg and a request whose org ID header
\* is header: whether ctxhttp.Do was reached, the error returned before it,
\* and the context and header the request goes out with.
NotifierDo(userID, ctxOrg, header) ==
    LET ctx == InjectOrgID(ctxOrg, userID)
        inj == InjectOrgIDIntoHTTPRequest(ctx, header)
    IN  IF inj.err # "nil"
        THEN [sent |-> FALSE, err |-> inj.err, ctx |-> ctx, header |-> header]
        ELSE [sent |-> TRUE, err |-> "nil", ctx |-> ctx, header |-> inj.header]

DoInit == doLog = <<>>

\* The notifier created for tenant t sends a request: its send path calls
\* the Do function with the context and the request it built.
DoCall(t, ctxOrg, header) ==
    /\ Len(doLog) < MaxRequests
    /\ doLog' = Append(doLog, [notifier |-> t, inCtx |-> ctxOrg,
                               inHeader |-> header,
                               out |-> NotifierDo(t, ctxOrg, header)])
    /\ UNCHANGED otherThanDo

DoNext == \E t \in Tenants, ctxOrg \in OrgIDs, header \in OrgIDs :
              DoCall(t, ctxOrg, header)

\* C14: every request the notifier created for tenant T sends carries
\* exactly T in the request context and in the header, whatever the incoming
\* context carried; when injecting the ID into the request fails (the
\* request already names another org ID), the request is not sent and the
\* error is returned.
C14_TenantIdentity ==
    \A i \in 1..Len(doLog) :
        LET call == doLog[i]
        IN  /\ call.out.sent =>
                  /\ call.out.ctx = call.notifier
                  /\ call.out.header = call.notifier
            /\ call.inHeader \notin {NoOrgID, call.notifier} =>
                  /\ ~call.out.sent
                  /\ call.out.err # "nil"
            /\ call.out.sent \/ call.out.err # "nil"

\* A request sent with tenant T although the incoming context carried
\* another tenant, and a request refused because it named another tenant.
C14_Witness ==
    /\ \E i \in 1..Len(doLog) :
          /\ doLog[i].inCtx \in Tenants \ {doLog[i].notifier}
          /\ doLog[i].out.sent
    /\ \E i \in 1..Len(doLog) :
          /\ doLog[i].inHeader \in Tenants \ {doLog[i].notifier}
          /\ ~doLog[i].out.sent

-----------------------------------------------------------------------------
(* The rule store on GCS: GetRuleGroup, SetRuleGroup, DeleteRuleGroup      *)

\* Cap on the number of SetRuleGroup and DeleteRuleGroup calls.
MaxStoreOps == 3

\* The rule lists a group can carry: version 1..MaxRules of its rules.
MaxRules == 2

RuleLists == 1..MaxRules

rulePrefix == "rules/"

StoreUsers == {"t1", ""}

Namespaces == {"ns", ""}

GroupNames == {"g1", "g2"}

\* The identities of rule groups.
Triples == [user : StoreUsers, namespace : Namespaces, name : GroupNames]

generateRuleHandle(id, namespace, name) ==
    IF id = "" THEN rulePrefix
    ELSE IF namespace = "" THEN rulePrefix \o id \o "/"
    ELSE rulePrefix \o id \o "/" \o namespace \o "/" \o name

Handles == {generateRuleHandle(tr.user, tr.namespace, tr.name) : tr \in Triples}

NoObject == <<>>

\* store.ToProto(userID, namespace, grp)
ToProto(userID, namespace, name, rules) ==
    [Name |-> name, Namespace |-> namespace, Rules |-> rules, User |-> userID]

\* proto.Marshal of a RuleGroupDesc: its fields in tag order.
Marshal(rg) == <<rg.Name, rg.Namespace, rg.Rules, rg.User>>

\* proto.Unmarshal into a RuleGroupDesc.
Unmarshal(buf) ==
    [Name |-> buf[1], Namespace |-> buf[2], Rules |-> buf[3], User |-> buf[4]]

\* A nil *store.RuleGroupDesc, and the nil store.RuleGroup.
NilGroup == [Name |-> "", Namespace |-> "", Rules |-> 0, User |-> ""]

\* getRuleGroup(handle): nil, nil when the object does not exist.
getRuleGroup(handle) ==
    IF bucket[handle] = NoObject
    THEN [nil |-> TRUE, rg |-> NilGroup, err |-> "nil"]
    ELSE [nil |-> FALSE, rg |-> Unmarshal(bucket[handle]), err |-> "nil"]

\* GetRuleGroup(userID, namespace, grp)
GetRuleGroup(userID, namespace, grp) ==
    LET got == getRuleGroup(generateRuleHandle(userID, namespace, grp))
    IN  IF got.nil
        THEN [group |-> NilGroup, err |-> "ErrGroupNotFound"]
        ELSE [group |-> got.rg, err |-> "nil"]

NoCallYet == [op |-> "none", rules |-> 0]

StoreInit ==
    /\ bucket = [h \in Handles |-> NoObject]
    /\ storeOps = 0
    /\ lastSet = [tr \in Triples |-> NoCallYet]
    /\ lastGet = [group |-> NilGroup, err |-> "none"]

\* SetRuleGroup(userID, namespace, grp): the object is written when the
\* writer's Write and Close succeed (ok), and left alone otherwise.
SetRuleGroup(tr, rules, ok) ==
    /\ storeOps < MaxStoreOps
    /\ storeOps' = storeOps + 1
    /\ IF ok
       THEN /\ bucket' = [bucket EXCEPT
                  ![generateRuleHandle(tr.user, tr.namespace, tr.name)] =
                      Marshal(ToProto(tr.user, tr.namespace, tr.name, rules))]
            /\ lastSet' = [lastSet EXCEPT ![tr] = [op |-> "set", rules |-> rules]]
       ELSE UNCHANGED <<bucket, lastSet>>
    /\ UNCHANGED lastGet
    /\ UNCHANGED otherThanStore

\* DeleteRuleGroup(userID, namespace, group): the object's Delete fails when
\* there is no such object or the request fails (~ok).
DeleteRuleGroup(tr, ok) ==
    /\ storeOps < MaxStoreOps
    /\ storeOps' = storeOps + 1
    /\ LET handle == generateRuleHandle(tr.user, tr.namespace, tr.name)
       IN  IF ok /\ bucket[handle] # NoObject
           THEN /\ bucket' = [bucket EXCEPT ![handle] = NoObject]
                /\ lastSet' = [lastSet EXCEPT ![tr] =
                                   [op |-> "deleted", rules |-> 0]]
           ELSE UNCHANGED <<bucket, lastSet>>
    /\ UNCHANGED lastGet
    /\ UNCHANGED otherThanStore

\* A call of GetRuleGroup(userID, namespace, grp).
GetRuleGroupCall(tr) ==
    /\ lastGet' = GetRuleGroup(tr.user, tr.namespace, tr.name)
    /\ UNCHANGED <<bucket, storeOps, lastSet>>
    /\ UNCHANGED otherThanStore

StoreNext ==
    \/ \E tr \in Triples, rules \in RuleLists, ok \in BOOLEAN :
          SetRuleGroup(tr, rules, ok)
    \/ \E tr \in Triples, ok \in BOOLEAN : DeleteRuleGroup(tr, ok)
    \/ \E tr \in Triples : GetRuleGroupCall(tr)

\* The key the specification gives the group of identity tr.
SpecKey(tr) == rulePrefix \o tr.user \o "/" \o tr.namespace \o "/" \o tr.name

\* C20: after SetRuleGroup(tenant, namespace, group) succeeded and until a
\* later SetRuleGroup or DeleteRuleGroup for the same triple succeeds, the
\* group is stored under key rules/<tenant>/<namespace>/<name> and
\* GetRuleGroup(tenant, namespace, group.Name) returns it; after
\* DeleteRuleGroup for the triple succeeded, GetRuleGroup returns
\* ErrGroupNotFound.
C20_StoreRoundTrip ==
    \A tr \in Triples :
        /\ lastSet[tr].op = "set" =>
              /\ SpecKey(tr) = generateRuleHandle(tr.user, tr.namespace, tr.name)
              /\ GetRuleGroup(tr.user, tr.namespace, tr.name) =
                    [group |-> ToProto(tr.user, tr.namespace, tr.name,
                                       lastSet[tr].rules),
                     err |-> "nil"]
        /\ lastSet[tr].op = "deleted" =>
              GetRuleGroup(tr.user, tr.namespace, tr.name) =
                 [group |-> NilGroup, err |-> "ErrGroupNotFound"]

\* The object name generateRuleHandle gives the group of identity tr.
HandleOf(tr) == generateRuleHandle(tr.user, tr.namespace, tr.name)

\* C30: generateRuleHandle gives two different (tenant, namespace, name)
\* triples different keys, triples with an empty namespace or an empty
\* tenant included; so a step that is not a successful SetRuleGroup or
\* DeleteRuleGroup for a group leaves the object of that group as it was.
C30_KeysInjective ==
    /\ [](\A tr1, tr2 \in Triples :
            tr1 # tr2 => HandleOf(tr1) # HandleOf(tr2))
    /\ [][\A tr \in Triples :
             lastSet'[tr] = lastSet[tr] =>
                bucket'[HandleOf(tr)] = bucket[HandleOf(tr)]]_vars

-----------------------------------------------------------------------------
(* The compactor's runs (pkg/compactor), as its tests set them up          *)

\* Bound on the number of compaction runs.
MaxRuns == 2

\* Bound on the number of users a discovery finds in the bucket.
MaxUsers == 2

\* Bound on the configured number of retries.
MaxRetries == 3

\* The default of -compactor.compaction-retries: with the default
\* configuration a failing Iter is called three times in a run.
DefaultCompactionRetries == 3

RetryConfigs == (1..MaxRetries) \cup {DefaultCompactionRetries}

\* prepare: newCompactor with a configuration, the counters at zero.
CompInit ==
    /\ cfgCompactionRetries \in RetryConfigs
    /\ runPc = "idle"
    /\ attempts = 0
    /\ discovered = 0
    /\ discoverCalls = 0
    /\ userCompactions = 0
    /\ runsStarted = 0
    /\ runsCompleted = 0
    /\ runsFailed = 0
    /\ lastRun = "none"
    /\ discoveryAlwaysFailed = FALSE
    /\ userFailed = FALSE

\* A run starts: runs_started is incremented once, before the first attempt.
RunStart ==
    /\ runPc = "idle"
    /\ runsStarted < MaxRuns
    /\ runsStarted' = runsStarted + 1
    /\ runPc' = "ongoing"
    /\ attempts' = 0
    /\ discovered' = 0
    /\ discoverCalls' = 0
    /\ userCompactions' = 0
    /\ discoveryAlwaysFailed' = TRUE
    /\ userFailed' = FALSE
    /\ UNCHANGED <<cfgCompactionRetries, runsCompleted, runsFailed, lastRun>>
    /\ UNCHANGED otherThanComp

\* The retries are still ongoing: the run has failed fewer attempts than
\* the configured number.
RetriesOngoing_OneMore == attempts <= cfgCompactionRetries

RetriesOngoing == attempts < cfgCompactionRetries

\* The next attempt of the run begins (the backoff of the tests is zero).
AttemptStart ==
    /\ runPc = "ongoing"
    /\ RetriesOngoing
    /\ runPc' = "discover"
    /\ UNCHANGED <<cfgCompactionRetries, attempts, discovered, discoverCalls,
                   userCompactions, runsStarted, runsCompleted, runsFailed,
                   lastRun, discoveryAlwaysFailed, userFailed>>
    /\ UNCHANGED otherThanComp

\* The retries are used up: the run ends as failed.
RunFailed ==
    /\ runPc = "ongoing"
    /\ ~RetriesOngoing
    /\ runsFailed' = runsFailed + 1
    /\ lastRun' = "failed"
    /\ runPc' = "idle"
    /\ UNCHANGED <<cfgCompactionRetries, attempts, discovered, discoverCalls,
                   userCompactions, runsStarted, runsCompleted,
                   discoveryAlwaysFailed, userFailed>>
    /\ UNCHANGED otherThanComp

\* A failed discovery counted as a failed run of its own.
DiscoverUsers_CountsFailure(ok, n) ==
    /\ runPc = "discover"
    /\ discoverCalls' = discoverCalls + 1
    /\ IF ok
       THEN /\ discovered' = n
            /\ discoveryAlwaysFailed' = FALSE
            /\ runPc' = "users"
            /\ UNCHANGED <<attempts, runsFailed>>
       ELSE /\ attempts' = attempts + 1
            /\ runsFailed' = runsFailed + 1
            /\ runPc' = "ongoing"
            /\ UNCHANGED <<discovered, discoveryAlwaysFailed>>
    /\ UNCHANGED <<cfgCompactionRetries, userCompactions, runsStarted,
                   runsCompleted, lastRun, userFailed>>
    /\ UNCHANGED otherThanComp

\* "discovering users from bucket": one Iter("") call, which fails (the
\* attempt has failed) or finds n users.
DiscoverUsers(ok, n) ==
    /\ runPc = "discover"
    /\ discoverCalls' = discoverCalls + 1
    /\ IF ok
       THEN /\ discovered' = n
            /\ discoveryAlwaysFailed' = FALSE
            /\ runPc' = "users"
            /\ UNCHANGED attempts
       ELSE /\ attempts' = attempts + 1
            /\ runPc' = "ongoing"
            /\ UNCHANGED <<discovered, discoveryAlwaysFailed>>
    /\ UNCHANGED <<cfgCompactionRetries, userCompactions, runsStarted,
                   runsCompleted, runsFailed, lastRun, userFailed>>
    /\ UNCHANGED otherThanComp

\* "starting compaction of user blocks": the next user is compacted.  The
\* tests only exercise compactions that succeed; a failing one either fails
\* the attempt or is passed over.
CompactUser(ok, failsAttempt) ==
    /\ runPc = "users"
    /\ discovered > 0
    /\ userCompactions' = userCompactions + 1
    /\ IF ok
       THEN /\ discovered' = discovered - 1
            /\ UNCHANGED <<attempts, runPc, userFailed>>
       ELSE /\ userFailed' = TRUE
            /\ IF failsAttempt
               THEN /\ attempts' = attempts + 1
                    /\ discovered' = 0
                    /\ runPc' = "ongoing"
               ELSE /\ discovered' = discovered - 1
                    /\ UNCHANGED <<attempts, runPc>>
    /\ UNCHANGED <<cfgCompactionRetries, discoverCalls, runsStarted,
                   runsCompleted, runsFailed, lastRun, discoveryAlwaysFailed>>
    /\ UNCHANGED otherThanComp

\* Every discovered user has been gone through: the run ends as completed.
RunCompleted ==
    /\ runPc = "users"
    /\ discovered = 0
    /\ runsCompleted' = runsCompleted + 1
    /\ lastRun' = "completed"
    /\ runPc' = "idle"
    /\ UNCHANGED <<cfgCompactionRetries, attempts, discovered, discoverCalls,
                   userCompactions, runsStarted, runsFailed,
                   discoveryAlwaysFailed, userFailed>>
    /\ UNCHANGED otherThanComp

\* c.Shutdown(), which the tests call once the run they wait for has ended.
CompShutdown ==
    /\ runPc = "idle"
    /\ lastRun # "none"
    /\ runPc' = "stopped"
    /\ UNCHANGED <<cfgCompactionRetries, attempts, discovered, discoverCalls,
                   userCompactions, runsStarted, runsCompleted, runsFailed,
                   lastRun, discoveryAlwaysFailed, userFailed>>
    /\ UNCHANGED otherThanComp

CompNext ==
    \/ RunStart
    \/ AttemptStart
    \/ RunFailed
    \/ \E ok \in BOOLEAN, n \in 0..MaxUsers : DiscoverUsers(ok, n)
    \/ \E ok \in BOOLEAN, failsAttempt \in BOOLEAN :
            CompactUser(ok, failsAttempt)
    \/ RunCompleted
    \/ CompShutdown

\* No run is in progress.
NoRunInProgress == runPc \in {"idle", "stopped"}

\* A run has just ended.
RunEnded == NoRunInProgress /\ lastRun # "none"

EndsRun == ~NoRunInProgress /\ NoRunInProgress'

\* A step counts what it does to the run, and nothing else.
RunCounted ==
    /\ EndsRun =>
          \/ /\ runsCompleted' = runsCompleted + 1
             /\ runsFailed' = runsFailed
          \/ /\ runsFailed' = runsFailed + 1
             /\ runsCompleted' = runsCompleted
    /\ ~EndsRun =>
          runsCompleted' = runsCompleted /\ runsFailed' = runsFailed
    /\ NoRunInProgress /\ ~NoRunInProgress' =>
          runsStarted' = runsStarted + 1
    /\ ~(NoRunInProgress /\ ~NoRunInProgress') =>
          runsStarted' = runsStarted

-----------------------------------------------------------------------------
(* Specifications                                                          *)

OwnsIdle ==
    /\ ringMembers = <<>>
    /\ ringHealthy = TRUE
    /\ lastCall = [r \in Replicas |-> NoCall]
    /\ recalled = [r \in Replicas |-> FALSE]
    /\ failedLookups = [r \in Replicas |-> 0]
    /\ ringCheckErrors = [r \in Replicas |-> 0]

SendIdle ==
    /\ notifyExpr = "up"
    /\ notifyAlerts = <<>>
    /\ notifyDone = TRUE
    /\ sendCalls = <<>>

NewIdle ==
    /\ cfgNumWorkers = NumWorkers
    /\ cfgSharding = FALSE
    /\ notifierCfgOk = TRUE
    /\ storageOk = TRUE
    /\ lifecyclerOk = TRUE
    /\ ringOk = TRUE
    /\ nrpc = "returned"
    /\ nrStore = "store"
    /\ nrLifecycler = FALSE
    /\ nrRing = FALSE
    /\ nrWorkers = NumWorkers
    /\ nrScheduler = TRUE
    /\ nrRuler = "ruler"
    /\ nrErr = "nil"

DoIdle == doLog = <<>>

StoreIdle ==
    /\ bucket = [h \in Handles |-> NoObject]
    /\ storeOps = 0
    /\ lastSet = [tr \in Triples |-> NoCallYet]
    /\ lastGet = [group |-> NilGroup, err |-> "none"]

CompIdle ==
    /\ cfgCompactionRetries = DefaultCompactionRetries
    /\ runPc = "stopped"
    /\ attempts = 0
    /\ discovered = 0
    /\ discoverCalls = 0
    /\ userCompactions = 0
    /\ runsStarted = 0
    /\ runsCompleted = 0
    /\ runsFailed = 0
    /\ lastRun = "none"
    /\ discoveryAlwaysFailed = FALSE
    /\ userFailed = FALSE

LookupIdle ==
    /\ lookups = 0
    /\ lookupLast = NoLookup

AuxIdle == NewIdle /\ DoIdle /\ StoreIdle /\ CompIdle /\ LookupIdle

RulerIdle ==
    /\ enableSharding = FALSE
    /\ lifecycler = "none"
    /\ ring = "none"
    /\ notOwned = FALSE
    /\ notifiers = [t \in Tenants |-> 0]
    /\ notifiersMtx = "free"
    /\ nrun = [t \in Tenants |-> <<>>]
    /\ inserted = [t \in Tenants |-> {}]
    /\ failures = 0
    /\ userMetrics = [t \in Tenants |-> 0]
    /\ userMetricsMtx = "free"
    /\ metricsMade = [t \in Tenants |-> 0]
    /\ cpc = [c \in Callers |-> "idle"]
    /\ cuser = [c \in Callers |-> "none"]
    /\ cn = [c \in Callers |-> 0]
    /\ cret = [c \in Callers |-> "none"]
    /\ cearly = [c \in Callers |-> FALSE]
    /\ workChan = <<>>
    /\ chanClosed = FALSE
    /\ schedStop = FALSE
    /\ dispatched = 0
    /\ enqueued = 0
    /\ received = [id \in 1..MaxGroups |-> 0]
    /\ evalFailed = 0
    /\ wpc = [w \in Workers |-> "recv"]
    /\ wgroup = [w \in Workers |-> NoGroup]
    /\ sentAfterStop = FALSE
    /\ spc = "notcalled"
    /\ stopRange = {}

InitOwns == OwnsInit /\ SendIdle /\ RulerIdle /\ AuxIdle

SpecOwns == InitOwns /\ [][OwnsNext]_vars

InitSend == SendInit /\ OwnsIdle /\ RulerIdle /\ AuxIdle

Init == RulerInit /\ OwnsIdle /\ SendIdle /\ AuxIdle

Next == RulerNext

Spec == Init /\ [][Next]_vars

SpecSend == InitSend /\ [][SendNext]_vars

InitNew ==
    /\ NewInit /\ OwnsIdle /\ SendIdle /\ RulerIdle /\ DoIdle /\ StoreIdle
    /\ CompIdle /\ LookupIdle

InitDo ==
    /\ DoInit /\ OwnsIdle /\ SendIdle /\ RulerIdle /\ NewIdle /\ StoreIdle
    /\ CompIdle /\ LookupIdle

InitStore ==
    /\ StoreInit /\ OwnsIdle /\ SendIdle /\ RulerIdle /\ NewIdle /\ DoIdle
    /\ CompIdle /\ LookupIdle

InitComp ==
    /\ CompInit /\ OwnsIdle /\ SendIdle /\ RulerIdle /\ NewIdle /\ DoIdle
    /\ StoreIdle /\ LookupIdle

InitLookup ==
    /\ LookupInit /\ OwnsIdle /\ SendIdle /\ RulerIdle /\ NewIdle /\ DoIdle
    /\ StoreIdle /\ CompIdle

SpecLookup == InitLookup /\ [][LookupNext]_vars

SpecComp == InitComp /\ [][CompNext]_vars

SpecStore == InitStore /\ [][StoreNext]_vars

SpecDo == InitDo /\ [][DoNext]_vars

SpecNew == InitNew /\ [][NewNext]_vars

\* A Ruler with sharding enabled: its Stop takes every step of Ruler.Stop.
InitFair == Init /\ enableSharding

SpecFair == InitFair /\ [][Next]_vars /\ Fairness

====
